---- MODULE Spec2Model ----
(***************************************************************************)
(* Model of package dotenv (src/dotenv.go): a process-wide cache of        *)
(* environment variables, typed accessors over it, and Load, which fills   *)
(* the process environment from .env files.                                *)
(*                                                                         *)
(* Go strings are modelled as sequences of one-character strings, so that  *)
(* trimming, splitting, unquoting and parsing are computed character by    *)
(* character as the code does.                                             *)
(***************************************************************************)
EXTENDS Integers, Sequences, FiniteSets, TLC

VARIABLES env, cache, ret, stage

vars == <<env, cache, ret, stage>>

----------------------------------------------------------------------------
(* Bounds *)

\* longest list of file names passed to one Load call
MaxFiles == 2

\* longest value text written after "A=" on the line of a one-line file
MaxLen == 5

----------------------------------------------------------------------------
(* Go maps: cache (map[string]string) and the process environment *)

EmptyMap == [x \in {} |-> <<>>]

Has(m, k) == k \in DOMAIN m

Put(m, k, v) == [x \in (DOMAIN m) \cup {k} |-> IF x = k THEN v ELSE m[x]]

Del(m, k) == [x \in (DOMAIN m) \ {k} |-> m[x]]

----------------------------------------------------------------------------
(* package strings *)

\* unicode.IsSpace restricted to the characters the files and values use
IsSpace(c) == c \in {" ", "\t", "\r", "\n"}

RECURSIVE TrimLeft(_)
TrimLeft(s) ==
    IF s = <<>> THEN <<>>
    ELSE IF IsSpace(Head(s)) THEN TrimLeft(Tail(s)) ELSE s

RECURSIVE TrimRight(_)
TrimRight(s) ==
    IF s = <<>> THEN <<>>
    ELSE IF IsSpace(s[Len(s)]) THEN TrimRight(SubSeq(s, 1, Len(s) - 1)) ELSE s

\* strings.TrimSpace
TrimSpace(s) == TrimRight(TrimLeft(s))

\* strings.Index(s, c) for a one-character c, 0-based, -1 when absent
Index(s, c) ==
    IF \E i \in 1..Len(s) : s[i] = c
    THEN (CHOOSE i \in 1..Len(s) : s[i] = c /\ \A j \in 1..(i - 1) : s[j] # c) - 1
    ELSE -1

\* strings.HasPrefix(s, c) for a one-character c
HasPrefix(s, c) == Len(s) > 0 /\ s[1] = c

\* strings.Split(s, "\n"): always at least one element
RECURSIVE Split(_)
Split(s) ==
    LET idx == Index(s, "\n") IN
    IF idx = -1 THEN <<s>>
    ELSE <<SubSeq(s, 1, idx)>> \o Split(SubSeq(s, idx + 2, Len(s)))

----------------------------------------------------------------------------
(* package strconv and time.ParseDuration, on the characters the model     *)
(* draws: digits, sign, ".", the letters of the boolean words and the      *)
(* duration units ms, s, m.  A parse yields [ok, v].                       *)

Digits == {"0", "1", "2", "3", "4", "5", "6", "7", "8", "9"}

DigitVal(c) ==
    CASE c = "0" -> 0 [] c = "1" -> 1 [] c = "2" -> 2 [] c = "3" -> 3
      [] c = "4" -> 4 [] c = "5" -> 5 [] c = "6" -> 6 [] c = "7" -> 7
      [] c = "8" -> 8 [] c = "9" -> 9

AllDigits(s) == \A i \in 1..Len(s) : s[i] \in Digits

RECURSIVE Num(_)
Num(s) == IF s = <<>> THEN 0 ELSE 10 * Num(SubSeq(s, 1, Len(s) - 1)) + DigitVal(s[Len(s)])

RECURSIVE Pow10(_)
Pow10(n) == IF n = 0 THEN 1 ELSE 10 * Pow10(n - 1)

\* typed values: a Go string, bool, int, float64 (mantissa m, decimal scale
\* e: m / 10^e) and time.Duration (in microseconds)
StrVal(s) == [str |-> s]

BoolVal(b) == [bool |-> b]

IntVal(n) == [int |-> n]

FloatVal(m, e) == [float |-> [m |-> m, e |-> e]]

DurationVal(n) == [dur |-> n]

Fail == [ok |-> FALSE]

Ok(v) == [ok |-> TRUE, v |-> v]

\* strconv.ParseBool: a switch over twelve literal strings
ParseBool(s) ==
    IF s \in {<<"1">>, <<"t">>, <<"T">>, <<"T","R","U","E">>, <<"t","r","u","e">>, <<"T","r","u","e">>}
    THEN Ok(BoolVal(TRUE))
    ELSE IF s \in {<<"0">>, <<"f">>, <<"F">>, <<"F","A","L","S","E">>, <<"f","a","l","s","e">>, <<"F","a","l","s","e">>}
    THEN Ok(BoolVal(FALSE))
    ELSE Fail

HasSign(s) == Len(s) > 0 /\ s[1] \in {"+", "-"}

Unsigned(s) == IF HasSign(s) THEN Tail(s) ELSE s

Signed(s, n) == IF HasSign(s) /\ s[1] = "-" THEN 0 - n ELSE n

\* strconv.Atoi: optional sign, then one or more decimal digits
Atoi(s) ==
    LET d == Unsigned(s) IN
    IF Len(d) > 0 /\ AllDigits(d) THEN Ok(IntVal(Signed(s, Num(d)))) ELSE Fail

\* the float64 m / 10^e, with the trailing zeros of the fraction dropped so
\* that equal values are equal
RECURSIVE NormFloat(_, _)
NormFloat(m, e) ==
    IF e > 0 /\ m % 10 = 0 THEN NormFloat(m \div 10, e - 1) ELSE FloatVal(m, e)

\* splits "ddd.ddd" at the first "."; both parts all digits, not both empty
DecimalParts(s) ==
    LET dot == Index(s, ".")
        ip  == IF dot = -1 THEN s ELSE SubSeq(s, 1, dot)
        fp  == IF dot = -1 THEN <<>> ELSE SubSeq(s, dot + 2, Len(s))
    IN [ok |-> AllDigits(ip) /\ AllDigits(fp) /\ Len(ip) + Len(fp) > 0,
        ip |-> ip, fp |-> fp]

\* strconv.ParseFloat(s, 64): optional sign, decimal digits with an optional
\* fraction
ParseFloat(s) ==
    LET p == DecimalParts(Unsigned(s)) IN
    IF p.ok
    THEN Ok(NormFloat(Signed(s, Num(p.ip) * Pow10(Len(p.fp)) + Num(p.fp)), Len(p.fp)))
    ELSE Fail

\* time's unitMap, in microseconds
UnitMicros(u) ==
    CASE u = <<"m", "s">> -> 1000
      [] u = <<"s">> -> 1000000
      [] u = <<"m">> -> 60000000
      [] OTHER -> 0

\* length of the longest prefix of s made of digits and "."
RECURSIVE NumberLen(_)
NumberLen(s) ==
    IF s # <<>> /\ (Head(s) \in Digits \/ Head(s) = ".") THEN 1 + NumberLen(Tail(s)) ELSE 0

\* length of the longest prefix of s with neither a digit nor "."
RECURSIVE UnitLen(_)
UnitLen(s) ==
    IF s # <<>> /\ ~(Head(s) \in Digits \/ Head(s) = ".") THEN 1 + UnitLen(Tail(s)) ELSE 0

\* the loop of time.ParseDuration: one or more groups of number and unit
RECURSIVE DurationGroups(_)
DurationGroups(s) ==
    IF s = <<>> THEN Ok(0)
    ELSE
      LET nl   == NumberLen(s)
          rest == SubSeq(s, nl + 1, Len(s))
          ul   == UnitLen(rest)
          p    == DecimalParts(SubSeq(s, 1, nl))
          unit == UnitMicros(SubSeq(rest, 1, ul))
          tl   == DurationGroups(SubSeq(rest, ul + 1, Len(rest)))
      IN IF nl = 0 \/ ~p.ok \/ ul = 0 \/ unit = 0 \/ ~tl.ok THEN Fail
         ELSE Ok(Num(p.ip) * unit + (Num(p.fp) * unit) \div Pow10(Len(p.fp)) + tl.v)

\* time.ParseDuration, result in microseconds: optional sign, then "0" or a
\* non-empty list of groups
ParseDuration(s) ==
    LET d == Unsigned(s) IN
    IF d = <<"0">> THEN Ok(DurationVal(0))
    ELSE IF d = <<>> THEN Fail
    ELSE LET g == DurationGroups(d) IN IF g.ok THEN Ok(DurationVal(Signed(s, g.v))) ELSE Fail

----------------------------------------------------------------------------
(* The file system Load reads: each path is missing, unreadable, or holds  *)
(* text.                                                                   *)

Paths == {".env", "custom", "badkey", "locked", "missing"}

\* os.Stat reports anything but IsNotExist
Exists(p) == p # "missing"

\* os.ReadFile succeeds
Readable(p) == p \notin {"missing", "locked"}

Contents(p) ==
    CASE p = ".env" ->
           <<"A","=","1","\n","B","=","1",".","5">>
      [] p = "custom" ->
           <<"#","c","\n","\n"," ","B"," ","="," ","\"","1","s","\"","\r","\n",
             "n","o","e","q","\n","A","=","'","1","'","\n","A","=">>
      [] p = "badkey" ->
           <<"B","=","1","\n","=","v","\n","A","=","1","s">>
      [] OTHER -> <<>>

\* every list of at most MaxFiles paths, none listed twice
FileLists ==
    {f \in UNION {[1..n -> Paths] : n \in 0..MaxFiles} :
       \A i, j \in DOMAIN f : i # j => f[i] # f[j]}

----------------------------------------------------------------------------
(* Load *)

\* unquoting that goes on while an outer pair of matching quotes is left
RECURSIVE UnquoteAll(_)
UnquoteAll(value) ==
    IF Len(value) > 1
       /\ \/ (value[1] = "\"" /\ value[Len(value)] = "\"")
          \/ (value[1] = "'" /\ value[Len(value)] = "'")
    THEN UnquoteAll(SubSeq(value, 2, Len(value) - 1))
    ELSE value

\* strips one outer pair of matching quotes
Unquote(value) ==
    IF Len(value) > 1
       /\ \/ (value[1] = "\"" /\ value[Len(value)] = "\"")
          \/ (value[1] = "'" /\ value[Len(value)] = "'")
    THEN SubSeq(value, 2, Len(value) - 1)
    ELSE value

\* one line of a file: skipped, or the assignment it makes
ParseLine(raw) ==
    LET line == TrimSpace(raw)
        idx  == Index(line, "=")
    IN IF line = <<>> \/ HasPrefix(line, "#") THEN [skip |-> TRUE]
       ELSE IF idx = -1 THEN [skip |-> TRUE]
       ELSE [skip  |-> FALSE,
             key   |-> TrimSpace(SubSeq(line, 1, idx)),
             value |-> Unquote(IF idx + 1 < Len(line)
                               THEN TrimSpace(SubSeq(line, idx + 2, Len(line)))
                               ELSE <<>>)]

RECURSIVE ParseLines(_)
ParseLines(lines) ==
    IF lines = <<>> THEN <<>>
    ELSE LET a == ParseLine(Head(lines)) IN
         (IF a.skip THEN <<>> ELSE <<[key |-> a.key, value |-> a.value]>>)
           \o ParseLines(Tail(lines))

\* the assignments of each readable file, in line order
DotEnvAssignments == ParseLines(Split(Contents(".env")))

CustomAssignments == ParseLines(Split(Contents("custom")))

BadKeyAssignments == ParseLines(Split(Contents("badkey")))

Assignments(p) ==
    CASE p = ".env" -> DotEnvAssignments
      [] p = "custom" -> CustomAssignments
      [] p = "badkey" -> BadKeyAssignments

\* os.Setenv fails on an empty key or a key holding "="
SetenvOk(key) == key # <<>> /\ Index(key, "=") = -1

\* the inner loop with a Setenv that keeps the value a key already has
RECURSIVE SetAllKeepsFirst(_, _)
SetAllKeepsFirst(e, as) ==
    IF as = <<>> THEN [env |-> e, err |-> FALSE]
    ELSE IF ~SetenvOk(Head(as).key) THEN [env |-> e, err |-> TRUE]
    ELSE SetAllKeepsFirst(IF Has(e, Head(as).key) THEN e
                          ELSE Put(e, Head(as).key, Head(as).value), Tail(as))

\* the inner loop: sets each assignment, stops at the first Setenv error
RECURSIVE SetAll(_, _)
SetAll(e, as) ==
    IF as = <<>> THEN [env |-> e, err |-> FALSE]
    ELSE IF ~SetenvOk(Head(as).key) THEN [env |-> e, err |-> TRUE]
    ELSE SetAll(Put(e, Head(as).key, Head(as).value), Tail(as))

\* the outer loop without the os.IsNotExist test: a missing file fails to read
RECURSIVE LoadFilesNoSkip(_, _)
LoadFilesNoSkip(e, filenames) ==
    IF filenames = <<>> THEN [env |-> e, err |-> FALSE]
    ELSE LET filename == Head(filenames) IN
         IF ~Readable(filename) THEN [env |-> e, err |-> TRUE]
         ELSE LET r == SetAll(e, Assignments(filename)) IN
              IF r.err THEN r ELSE LoadFilesNoSkip(r.env, Tail(filenames))

\* the outer loop going on to the next file when one cannot be read
RECURSIVE LoadFilesSkipsUnreadable(_, _)
LoadFilesSkipsUnreadable(e, filenames) ==
    IF filenames = <<>> THEN [env |-> e, err |-> FALSE]
    ELSE LET filename == Head(filenames) IN
         IF ~Readable(filename) THEN LoadFilesSkipsUnreadable(e, Tail(filenames))
         ELSE LET r == SetAll(e, Assignments(filename)) IN
              IF r.err THEN r ELSE LoadFilesSkipsUnreadable(r.env, Tail(filenames))

\* the outer loop over the file names
RECURSIVE LoadFiles(_, _)
LoadFiles(e, filenames) ==
    IF filenames = <<>> THEN [env |-> e, err |-> FALSE]
    ELSE LET filename == Head(filenames) IN
         IF ~Exists(filename) THEN LoadFiles(e, Tail(filenames))
         ELSE IF ~Readable(filename) THEN [env |-> e, err |-> TRUE]
         ELSE LET r == SetAll(e, Assignments(filename)) IN
              IF r.err THEN r ELSE LoadFiles(r.env, Tail(filenames))

\* no argument means the default file
DefaultNames(filenames) == IF Len(filenames) = 0 THEN <<".env">> ELSE filenames

\* ClearCache that leaves the map as it is
ClearCacheKeeps(c) == c

\* ClearCache: the cache it leaves in place of c
ClearCache(c) == EmptyMap

\* Load without its call of ClearCache
CacheAfterLoadKept(c, failed) == c

\* Load that clears the cache on every return
CacheAfterLoadCleared(c, failed) == ClearCache(c)

\* the cache Load leaves: cleared unless Load returned early with an error
CacheAfterLoad(c, failed) == IF failed THEN c ELSE ClearCache(c)

----------------------------------------------------------------------------
(* Accessors.  Each yields the value returned and the cache it leaves.     *)

GetString(c, e, key, fallback) ==
    IF Has(c, key) THEN [val |-> c[key], cache |-> c]
    ELSE LET value == IF ~Has(e, key) \/ e[key] = <<>> THEN fallback ELSE e[key]
         IN [val |-> value, cache |-> Put(c, key, value)]

GetBool(c, e, key, fallback) ==
    IF ~Has(c, key) /\ ~Has(e, key) THEN [val |-> fallback, cache |-> c]
    ELSE LET value == IF Has(c, key) THEN c[key] ELSE e[key]
             p     == ParseBool(value)
         IN [val |-> IF p.ok THEN p.v ELSE fallback, cache |-> Put(c, key, value)]

\* GetInt that looks the key up in the environment on every call
GetIntRereads(c, e, key, fallback) ==
    IF ~Has(e, key) THEN [val |-> fallback, cache |-> c]
    ELSE LET p == Atoi(e[key])
         IN [val |-> IF p.ok THEN p.v ELSE fallback, cache |-> Put(c, key, e[key])]

GetInt(c, e, key, fallback) ==
    IF ~Has(c, key) /\ ~Has(e, key) THEN [val |-> fallback, cache |-> c]
    ELSE LET value == IF Has(c, key) THEN c[key] ELSE e[key]
             p     == Atoi(value)
         IN [val |-> IF p.ok THEN p.v ELSE fallback, cache |-> Put(c, key, value)]

GetFloat(c, e, key, fallback) ==
    IF ~Has(c, key) /\ ~Has(e, key) THEN [val |-> fallback, cache |-> c]
    ELSE LET value == IF Has(c, key) THEN c[key] ELSE e[key]
             p     == ParseFloat(value)
         IN [val |-> IF p.ok THEN p.v ELSE fallback, cache |-> Put(c, key, value)]

\* GetDuration that writes the cache entry only after the value has parsed
GetDurationCachesParsed(c, e, key, fallback) ==
    IF ~Has(c, key) /\ ~Has(e, key) THEN [val |-> fallback, cache |-> c]
    ELSE LET value == IF Has(c, key) THEN c[key] ELSE e[key]
             p     == ParseDuration(value)
         IN [val |-> IF p.ok THEN p.v ELSE fallback,
             cache |-> IF p.ok THEN Put(c, key, value) ELSE c]

GetDuration(c, e, key, fallback) ==
    IF ~Has(c, key) /\ ~Has(e, key) THEN [val |-> fallback, cache |-> c]
    ELSE LET value == IF Has(c, key) THEN c[key] ELSE e[key]
             p     == ParseDuration(value)
         IN [val |-> IF p.ok THEN p.v ELSE fallback, cache |-> Put(c, key, value)]

\* the Must accessors: [panic, val]; they read the environment only
NoValue == [none |-> TRUE]

MustGetString(e, key) ==
    IF ~Has(e, key) THEN [panic |-> TRUE, val |-> NoValue]
    ELSE [panic |-> FALSE, val |-> StrVal(e[key])]

MustGetBool(e, key) ==
    IF ~Has(e, key) \/ ~ParseBool(e[key]).ok THEN [panic |-> TRUE, val |-> NoValue]
    ELSE [panic |-> FALSE, val |-> ParseBool(e[key]).v]

\* MustGetInt that answers from the cache when the key is cached
MustGetIntCached(e, key) ==
    LET value == IF Has(cache, key) THEN cache[key] ELSE IF Has(e, key) THEN e[key] ELSE <<>> IN
    IF (~Has(cache, key) /\ ~Has(e, key)) \/ ~Atoi(value).ok THEN [panic |-> TRUE, val |-> NoValue]
    ELSE [panic |-> FALSE, val |-> Atoi(value).v]

MustGetInt(e, key) ==
    IF ~Has(e, key) \/ ~Atoi(e[key]).ok THEN [panic |-> TRUE, val |-> NoValue]
    ELSE [panic |-> FALSE, val |-> Atoi(e[key]).v]

MustGetFloat(e, key) ==
    IF ~Has(e, key) \/ ~ParseFloat(e[key]).ok THEN [panic |-> TRUE, val |-> NoValue]
    ELSE [panic |-> FALSE, val |-> ParseFloat(e[key]).v]

MustGetDuration(e, key) ==
    IF ~Has(e, key) \/ ~ParseDuration(e[key]).ok THEN [panic |-> TRUE, val |-> NoValue]
    ELSE [panic |-> FALSE, val |-> ParseDuration(e[key]).v]

----------------------------------------------------------------------------
(* Inputs of the calls *)

Keys == {<<"A">>, <<"B">>}

\* values the program or its tests set with os.Setenv
ValueSet == {<<>>, <<"1">>}

StringFallbacks == {<<>>, <<"1">>}

BoolFallbacks == {BoolVal(FALSE), BoolVal(TRUE)}

IntFallbacks == {IntVal(0), IntVal(7)}

\* 0 and 2.5
FloatFallbacks == {FloatVal(0, 0), FloatVal(25, 1)}

\* 0 and 1*time.Second
DurationFallbacks == {DurationVal(0), DurationVal(1000000)}

GetOps == {"GetString", "GetBool", "GetInt", "GetFloat", "GetDuration"}

MustOps == {"MustGetString", "MustGetBool", "MustGetInt", "MustGetFloat", "MustGetDuration"}

----------------------------------------------------------------------------
(* State: env is the process environment, cache the package variable, ret  *)
(* the last call with its arguments and result (for Load also whether the  *)
(* cache held anything when it was called and whether the call left the    *)
(* environment as it was).  stage follows one key through                  *)
(* "read and cached, then ClearCache, then the variable set to another     *)
(* value, then GetString": the key is one of those cached when ClearCache  *)
(* runs; n is 2 after ClearCache, 3 after the change, 4 after GetString.   *)

NoStage == [key |-> <<>>, n |-> 0]

Init ==
    /\ env = EmptyMap
    /\ cache = EmptyMap
    /\ ret = [op |-> "init"]
    /\ stage = NoStage

\* stage once the sequence has ended
Live == IF stage.n = 4 THEN NoStage ELSE stage

\* stage after an accessor for key: it ends the sequence the key is in
StageAfterGet(op, key) ==
    IF Live.key # key THEN Live
    ELSE IF Live.n = 3 /\ op = "GetString" THEN [key |-> key, n |-> 4]
    ELSE NoStage

GetRet(op, key, fallback, val) ==
    [op |-> op, key |-> key, fb |-> fallback, val |-> val, hit |-> Has(cache, key)]

GetStringAct(key, fallback) ==
    LET r == GetString(cache, env, key, fallback) IN
    /\ cache' = r.cache
    /\ ret' = GetRet("GetString", key, StrVal(fallback), StrVal(r.val))
    /\ stage' = StageAfterGet("GetString", key)
    /\ UNCHANGED env

GetBoolAct(key, fallback) ==
    LET r == GetBool(cache, env, key, fallback) IN
    /\ cache' = r.cache
    /\ ret' = GetRet("GetBool", key, fallback, r.val)
    /\ stage' = StageAfterGet("GetBool", key)
    /\ UNCHANGED env

GetIntAct(key, fallback) ==
    LET r == GetInt(cache, env, key, fallback) IN
    /\ cache' = r.cache
    /\ ret' = GetRet("GetInt", key, fallback, r.val)
    /\ stage' = StageAfterGet("GetInt", key)
    /\ UNCHANGED env

GetFloatAct(key, fallback) ==
    LET r == GetFloat(cache, env, key, fallback) IN
    /\ cache' = r.cache
    /\ ret' = GetRet("GetFloat", key, fallback, r.val)
    /\ stage' = StageAfterGet("GetFloat", key)
    /\ UNCHANGED env

GetDurationAct(key, fallback) ==
    LET r == GetDuration(cache, env, key, fallback) IN
    /\ cache' = r.cache
    /\ ret' = GetRet("GetDuration", key, fallback, r.val)
    /\ stage' = StageAfterGet("GetDuration", key)
    /\ UNCHANGED env

MustResult(op, e, key) ==
    CASE op = "MustGetString" -> MustGetString(e, key)
      [] op = "MustGetBool" -> MustGetBool(e, key)
      [] op = "MustGetInt" -> MustGetInt(e, key)
      [] op = "MustGetFloat" -> MustGetFloat(e, key)
      [] op = "MustGetDuration" -> MustGetDuration(e, key)

\* a Must accessor; a panic is caught by the caller, as the tests do, and
\* the process goes on
MustGetAct(op, key) ==
    LET r == MustResult(op, env, key) IN
    /\ ret' = [op |-> op, key |-> key, panic |-> r.panic, val |-> r.val]
    /\ stage' = Live
    /\ UNCHANGED <<env, cache>>

ClearCacheAct ==
    /\ cache' = ClearCache(cache)
    /\ ret' = [op |-> "ClearCache"]
    /\ \/ stage' = Live
       \/ /\ Live = NoStage
          /\ \E key \in DOMAIN cache : stage' = [key |-> key, n |-> 2]
    /\ UNCHANGED env

LoadAct(filenames) ==
    LET r == LoadFiles(env, DefaultNames(filenames)) IN
    /\ env' = r.env
    /\ cache' = CacheAfterLoad(cache, r.err)
    /\ ret' = [op |-> "Load", files |-> filenames, err |-> r.err,
               dirty |-> cache # EmptyMap, same |-> r.env = env]
    /\ stage' = NoStage

\* the program or its tests change the environment (os.Setenv, os.Unsetenv)
SetenvAct(key, value) ==
    /\ env' = Put(env, key, value)
    /\ ret' = [op |-> "Setenv", key |-> key]
    /\ stage' = IF Live.key = key /\ Live.n \in {2, 3} /\ (~Has(env, key) \/ env[key] # value)
                THEN [key |-> key, n |-> 3]
                ELSE Live
    /\ UNCHANGED cache

UnsetenvAct(key) ==
    /\ env' = Del(env, key)
    /\ ret' = [op |-> "Unsetenv", key |-> key]
    /\ stage' = IF Live.key = key /\ Live.n = 3 THEN [key |-> key, n |-> 2] ELSE Live
    /\ UNCHANGED cache

Next ==
    \/ \E key \in Keys, fallback \in StringFallbacks : GetStringAct(key, fallback)
    \/ \E key \in Keys, fallback \in BoolFallbacks : GetBoolAct(key, fallback)
    \/ \E key \in Keys, fallback \in IntFallbacks : GetIntAct(key, fallback)
    \/ \E key \in Keys, fallback \in FloatFallbacks : GetFloatAct(key, fallback)
    \/ \E key \in Keys, fallback \in DurationFallbacks : GetDurationAct(key, fallback)
    \/ \E op \in MustOps, key \in Keys : MustGetAct(op, key)
    \/ ClearCacheAct
    \/ \E filenames \in FileLists : LoadAct(filenames)
    \/ \E key \in Keys, value \in ValueSet : SetenvAct(key, value)
    \/ \E key \in Keys : UnsetenvAct(key)

Spec == Init /\ [][Next]_vars

----------------------------------------------------------------------------
(* Load of a file that holds the single line A=<text>, for every text of   *)
(* at most MaxLen characters drawn from the two quote characters, a letter *)
(* and a space.                                                            *)

LineChars == {"\"", "'", "a", " "}

RawValues == UNION {[1..n -> LineChars] : n \in 0..MaxLen}

\* the contents of the file
OneLine(raw) == <<"A", "=">> \o raw

\* the file has been written and Load has not been called yet
LineInit ==
    /\ env = EmptyMap
    /\ cache = EmptyMap
    /\ ret \in {[op |-> "file", raw |-> raw] : raw \in RawValues}
    /\ stage = NoStage

LoadLineAct ==
    /\ ret.op = "file"
    /\ LET r == SetAll(env, ParseLines(Split(OneLine(ret.raw)))) IN
       /\ env' = r.env
       /\ cache' = CacheAfterLoad(cache, r.err)
       /\ ret' = [op |-> "LoadLine", raw |-> ret.raw, err |-> r.err]
    /\ stage' = NoStage

LineNext == LoadLineAct

LineSpec == LineInit /\ [][LineNext]_vars

----------------------------------------------------------------------------
(* Properties.  A step of an accessor, Load or ClearCache is recognised by *)
(* ret', which every call overwrites with its own record.                  *)

\* what an accessor named op makes of the string s: [ok, v]
ParseFor(op, s) ==
    CASE op \in {"GetString", "MustGetString"} -> Ok(StrVal(s))
      [] op \in {"GetBool", "MustGetBool"} -> ParseBool(s)
      [] op \in {"GetInt", "MustGetInt"} -> Atoi(s)
      [] op \in {"GetFloat", "MustGetFloat"} -> ParseFloat(s)
      [] op \in {"GetDuration", "MustGetDuration"} -> ParseDuration(s)

\* the result derived from string s alone, with fallback fb
Derived(op, s, fb) == IF ParseFor(op, s).ok THEN ParseFor(op, s).v ELSE fb

\* C1: once a key has a cache entry, every GetString, GetBool, GetInt,
\* GetFloat or GetDuration for it returns what the cached string yields
\* (the string itself, or its parse, or the fallback when it does not
\* parse), never what the environment holds, and leaves the entry in place.
C1_CachedKeyNeverRereadsEnv ==
    [][\A key \in Keys :
         (Has(cache, key) /\ ret'.op \in GetOps /\ ret'.key = key)
           => /\ ret'.val = Derived(ret'.op, cache[key], ret'.fb)
              /\ cache' = cache]_vars

\* a typed accessor has just answered from a cache entry that the
\* environment no longer agrees with, and the two yield different results
C1_Witness ==
    /\ ret.op \in GetOps
    /\ ret.hit
    /\ Has(cache, ret.key)
    /\ \/ ~Has(env, ret.key)
       \/ /\ env[ret.key] # cache[ret.key]
          /\ Derived(ret.op, env[ret.key], ret.fb) # ret.val
    /\ ret.val = Derived(ret.op, cache[ret.key], ret.fb)
    /\ ret.val # ret.fb

\* C2 as stated: a key was read and cached, ClearCache ran, the variable was
\* set to a new value v2; the next GetString for the key returns v2.
C2_Original ==
    [][(stage.n = 3 /\ ret'.op = "GetString" /\ ret'.key = stage.key)
         => ret'.val = StrVal(env[stage.key])]_vars

\* C2 amended: ... the next GetString for the key returns v2 when v2 is not
\* empty, and the fallback of that call when v2 is the empty string.
C2_ClearCacheRereadsEnv ==
    [][(stage.n = 3 /\ ret'.op = "GetString" /\ ret'.key = stage.key)
         => ret'.val = IF env[stage.key] = <<>> THEN ret'.fb ELSE StrVal(env[stage.key])]_vars

\* the sequence has just ended: GetString returned the new, non-empty value
\* although it was called with another fallback
C2_Witness ==
    /\ stage.n = 4
    /\ ret.op = "GetString"
    /\ ret.key = stage.key
    /\ ~ret.hit
    /\ ret.val = StrVal(env[ret.key])
    /\ ret.val # StrVal(<<>>)
    /\ ret.val # ret.fb

RECURSIVE ReadAssignments(_)
ReadAssignments(filenames) ==
    IF filenames = <<>> THEN <<>>
    ELSE IF ~Exists(Head(filenames)) THEN ReadAssignments(Tail(filenames))
    ELSE IF ~Readable(Head(filenames)) THEN <<>>
    ELSE Assignments(Head(filenames)) \o ReadAssignments(Tail(filenames))

\* those of them Load processes: the ones before the first that Setenv rejects
Processed(filenames) ==
    LET all == ReadAssignments(DefaultNames(filenames))
        bad == {i \in 1..Len(all) : ~SetenvOk(all[i].key)}
    IN IF bad = {} THEN all
       ELSE SubSeq(all, 1, (CHOOSE i \in bad : \A j \in bad : i <= j) - 1)

\* the value of the last assignment to key in as
LastOf(as, key) ==
    as[CHOOSE i \in 1..Len(as) :
         as[i].key = key /\ \A j \in (i + 1)..Len(as) : as[j].key # key].value

\* C4 as stated: right after a successful Load every key the files assign
\* has a cache entry holding the loaded value.
C4_Original ==
    (ret.op = "Load" /\ ~ret.err)
      => LET as == Processed(ret.files) IN
         \A i \in 1..Len(as) :
           Has(cache, as[i].key) /\ cache[as[i].key] = LastOf(as, as[i].key)

\* C5: in the state a Load leaves, every key assigned by the assignments it processed
\* holds in the environment the value of the last of them, across files in
\* argument order and across the lines of one file.
C5_LastAssignmentWins ==
    ret.op = "Load"
      => LET as == Processed(ret.files) IN
         \A i \in 1..Len(as) :
           Has(env, as[i].key) /\ env[as[i].key] = LastOf(as, as[i].key)

\* Load(".env", "custom") has run: A is assigned 1 by the first file, then 1
\* and the empty string on two lines of the second, B is assigned by both
C5_Witness ==
    /\ ret.op = "Load"
    /\ ret.files = <<".env", "custom">>
    /\ ~ret.err
    /\ LET as == Processed(ret.files) IN
       \E i, j \in 1..Len(as) :
         i < j /\ as[i].key = as[j].key /\ as[i].value # as[j].value
    /\ env[<<"A">>] = <<>>
    /\ env[<<"B">>] = <<"1", "s">>

TypedGetOps == GetOps \ {"GetString"}

\* C6 as stated: GetBool, GetInt, GetFloat and GetDuration return the
\* fallback of the call whenever the variable is not set or its value does
\* not parse as the type.
C6_Original ==
    (ret.op \in TypedGetOps
       /\ (~Has(env, ret.key) \/ ~ParseFor(ret.op, env[ret.key]).ok))
      => ret.val = ret.fb

\* C7 as stated: for a key that is not in the environment GetString returns
\* the fallback of the call and leaves the environment as it is.
C7_Original ==
    [][(ret'.op = "GetString" /\ ~Has(env, ret'.key))
         => (ret'.val = ret'.fb /\ env' = env)]_vars

\* C8 as stated: for a key whose environment value is the empty string
\* GetString returns the fallback of the call.
C8_Original ==
    [][(ret'.op = "GetString" /\ Has(env, ret'.key) /\ env[ret'.key] = <<>>)
         => ret'.val = ret'.fb]_vars

\* C9: a Must accessor panics exactly when the key is unset or its current
\* environment value does not parse as the type, otherwise returns the parse
\* of the current environment value; it leaves the cache as it is.
C9_MustReadsEnvOnly ==
    [][ret'.op \in MustOps
         => /\ ret'.panic = (~Has(env, ret'.key) \/ ~ParseFor(ret'.op, env[ret'.key]).ok)
            /\ ~ret'.panic => ret'.val = ParseFor(ret'.op, env[ret'.key]).v
            /\ cache' = cache
            /\ env' = env]_vars

\* a typed Must accessor has answered from the environment for a key whose
\* cache entry holds another string, one that does not parse as the type
C9_Witness ==
    /\ ret.op \in MustOps \ {"MustGetString"}
    /\ ~ret.panic
    /\ Has(cache, ret.key)
    /\ cache[ret.key] # env[ret.key]
    /\ ~ParseFor(ret.op, cache[ret.key]).ok
    /\ ret.val = ParseFor(ret.op, env[ret.key]).v

\* Load returns an error exactly when one of the files exists and cannot be
\* read or holds an assignment that Setenv rejects
Fails(filenames) ==
    \E i \in 1..Len(filenames) :
      /\ Exists(filenames[i])
      /\ \/ ~Readable(filenames[i])
         \/ \E j \in 1..Len(Assignments(filenames[i])) :
              ~SetenvOk(Assignments(filenames[i])[j].key)

\* C10: paths that do not exist are skipped: a Load of a list holding only
\* such paths succeeds and leaves the environment as it was; a Load of a
\* list holding such paths among others fails only when one of the others
\* does, and leaves in the environment the assignments it processed from
\* the others.
C10_MissingFileSkipped ==
    (ret.op = "Load" /\ ret.files # <<>>)
      => LET rest == SelectSeq(ret.files, Exists) IN
         /\ rest = <<>> => (~ret.err /\ ret.same)
         /\ ret.err = Fails(rest)
         /\ rest # <<>> =>
              LET as == Processed(rest) IN
              \A i \in 1..Len(as) :
                Has(env, as[i].key) /\ env[as[i].key] = LastOf(as, as[i].key)

\* Load("missing", ".env") has succeeded and applied .env
C10_Witness ==
    /\ ret.op = "Load"
    /\ ret.files = <<"missing", ".env">>
    /\ ~ret.err
    /\ env[<<"A">>] = <<"1">>
    /\ env[<<"B">>] = <<"1", ".", "5">>

\* C11: Load stores the trimmed value without one outer pair of quotes when
\* it has at least 2 characters and begins and ends with the same quote
\* character (both double or both single); in every other case it stores the
\* trimmed value as it is.  Quotes inside the stored text are kept.
C11_OneOuterPairStripped ==
    ret.op = "LoadLine"
      => LET v == TrimSpace(ret.raw)
             n == Len(v)
             quoted == /\ n >= 2
                       /\ \/ (v[1] = "\"" /\ v[n] = "\"")
                          \/ (v[1] = "'" /\ v[n] = "'")
         IN /\ ~ret.err
            /\ Has(env, <<"A">>)
            /\ env[<<"A">>] = IF quoted THEN SubSeq(v, 2, n - 1) ELSE v

\* the line A="'a'" has been loaded: the single quotes inside are kept
C11_Witness ==
    /\ ret.op = "LoadLine"
    /\ ret.raw = <<"\"", "'", "a", "'", "\"">>
    /\ env[<<"A">>] = <<"'", "a", "'">>

\* the assignments of the files before position i that exist
RECURSIVE Before(_, _)
Before(filenames, i) ==
    IF i <= 1 THEN <<>>
    ELSE Before(filenames, i - 1)
           \o (IF Exists(filenames[i - 1]) THEN Assignments(filenames[i - 1]) ELSE <<>>)

\* C12: when a file of the list exists and cannot be read, and nothing before
\* it failed, Load returns an error; every key the earlier files assign
\* holds the last value they give it, and every other key is as it was
\* before the call, so nothing of the later files is applied.
C12_UnreadableFileAborts ==
    [][\A i \in 1..MaxFiles :
         (/\ ret'.op = "Load"
          /\ i <= Len(ret'.files)
          /\ Exists(ret'.files[i]) /\ ~Readable(ret'.files[i])
          /\ ~Fails(SubSeq(ret'.files, 1, i - 1)))
           => LET as == Before(ret'.files, i)
                  assigned == {as[j].key : j \in 1..Len(as)}
              IN /\ ret'.err
                 /\ DOMAIN env' = DOMAIN env \cup assigned
                 /\ \A key \in DOMAIN env' :
                      env'[key] = IF key \in assigned THEN LastOf(as, key) ELSE env[key]]_vars

\* Load(".env", "locked") has failed after it changed the environment
C12_Witness ==
    /\ ret.op = "Load"
    /\ ret.files = <<".env", "locked">>
    /\ ret.err
    /\ ~ret.same
    /\ env[<<"A">>] = <<"1">>
    /\ env[<<"B">>] = <<"1", ".", "5">>

\* C13: GetBool, GetInt, GetFloat and GetDuration on a key without a cache
\* entry add one exactly when the key is in the environment.  When it is
\* not, they return the fallback and leave the cache as it is.  When it is,
\* the entry holds the environment's string, parsable or not, and the call
\* returns its parse or, when it does not parse, the fallback.  Once an
\* unparsable string is cached, every call returns its own fallback and the
\* entry stays.  GetString differs: for a key in neither it caches the fallback.
C13_TypedGetCachesRawWhenPresent ==
    [][\A key \in Keys :
         /\ (ret'.op = "GetString" /\ ret'.key = key /\ ~Has(cache, key) /\ ~Has(env, key))
              => (Has(cache', key) /\ StrVal(cache'[key]) = ret'.fb)
         /\ (ret'.op \in TypedGetOps /\ ret'.key = key)
           => /\ (~Has(cache, key) /\ ~Has(env, key))
                   => (ret'.val = ret'.fb /\ cache' = cache)
              /\ (~Has(cache, key) /\ Has(env, key))
                   => /\ cache' = Put(cache, key, env[key])
                      /\ ret'.val = Derived(ret'.op, env[key], ret'.fb)
              /\ (Has(cache, key) /\ ~ParseFor(ret'.op, cache[key]).ok)
                   => (ret'.val = ret'.fb /\ cache' = cache)]_vars

\* a typed accessor has met a key that had no cache entry and whose
\* environment value does not parse: it returned the fallback and the
\* string is now cached
C13_Witness ==
    /\ ret.op \in TypedGetOps
    /\ ~ret.hit
    /\ Has(env, ret.key)
    /\ Has(cache, ret.key)
    /\ cache[ret.key] = env[ret.key]
    /\ ~ParseFor(ret.op, cache[ret.key]).ok
    /\ ret.val = ret.fb

\* C14: a Load that returns an error leaves the cache exactly as it was
\* before the call, whatever it has changed in the environment; and right
\* after such a Load an accessor for a cached key still answers from the
\* cache entry, not from the environment.
C14_FailedLoadKeepsCache ==
    [][/\ (ret'.op = "Load" /\ ret'.err) => cache' = cache
       /\ (ret.op = "Load" /\ ret.err /\ ret'.op \in GetOps /\ Has(cache, ret'.key))
            => ret'.val = Derived(ret'.op, cache[ret'.key], ret'.fb)]_vars

\* a Load has failed after overwriting, in the environment, a key whose
\* cache entry still holds another string
C14_Witness ==
    /\ ret.op = "Load"
    /\ ret.err
    /\ ~ret.same
    /\ ret.dirty
    /\ LET as == Processed(ret.files) IN
       \E i \in 1..Len(as) :
         /\ Has(cache, as[i].key)
         /\ env[as[i].key] = LastOf(as, as[i].key)
         /\ cache[as[i].key] # env[as[i].key]

====
